---- MODULE Spec2Model ----
(***************************************************************************)
(* PathPoints (source/main.py): the favorites store (add_favorite,         *)
(* remove_favorite over the two favorites JSON files) and the screen       *)
(* population of PathPointsMain (initialize_subscreens, refresh_favorite,  *)
(* view_subject).                                                          *)
(*                                                                         *)
(* Three specifications share the variables:                               *)
(*   SpecStore  calls of add_favorite / remove_favorite with arbitrary     *)
(*              arguments on files in any state (missing, unparseable,     *)
(*              without "samples", well-formed);                           *)
(*   SpecCrash  the same calls executed statement by statement, with a     *)
(*              process crash possible between any two statements;         *)
(*   Spec       the running application: the four start-up callbacks and   *)
(*              the user's navigation and button presses.                  *)
(***************************************************************************)
EXTENDS Integers, Sequences, FiniteSets, TLC

\* Largest number of members in the "samples" object of an initial favorites
\* file text (SpecStore, SpecCrash).
MaxText == 2
\* Largest number of entries in an initial favorites file of the running
\* application (Spec).
MaxFav == 2

VARIABLES
    favorites,          \* json_file -> content of that favorites file on disk
    subject_lists,      \* subject list file -> its "subjects" object
    subjects,           \* subject file name -> its sample object
    mem,                \* json_file -> the in-memory replay of the calls made on it
    event,              \* the last operation performed and how it ended
    proc,               \* the call in progress (statement-wise execution)
    pending,            \* callbacks scheduled by __init__ and not yet run
    current,            \* manager.current
    cells,              \* all-subjects screen -> closure cells of its lambdas
    all_subjects_grid,  \* all-subjects screen -> its grid
    subject_grid,       \* the grid of the "subject" screen
    favorite_grid,      \* favorites screen -> its grid
    shown,              \* which source the subject grid was last rendered from
    opened_from         \* the all-subjects screen whose button opened the subject screen

vars == <<favorites, subject_lists, subjects, mem, event, proc, pending, current,
          cells, all_subjects_grid, subject_grid, favorite_grid, shown, opened_from>>

uivars == <<pending, current, cells, all_subjects_grid, subject_grid, favorite_grid,
            shown, opened_from>>

taxonomy == <<subject_lists, subjects>>

------------------------------------------------------------------------------
(* File names used by the program.                                         *)

FavDiagnostics == "favorites/favorites-diagnostics.json"
FavGrossing == "favorites/favorites-grossing.json"
JsonFiles == {FavDiagnostics, FavGrossing}

ListDiagnostics == "subject_lists/diagnostics_subjects.json"
ListGrossing == "subject_lists/grossing_subjects.json"

------------------------------------------------------------------------------
(* Python dict: insertion ordered, keys distinct; a sequence of <<key,     *)
(* value>> pairs.                                                          *)

keys(d) == {d[i][1] : i \in DOMAIN d}

getitem(d, k) == (d[CHOOSE i \in DOMAIN d : d[i][1] = k])[2]

\* d[k] = v : replaces the value in place when k is a key, appends otherwise
setitem(d, k, v) ==
    IF k \in keys(d)
    THEN [i \in DOMAIN d |-> IF d[i][1] = k THEN <<k, v>> ELSE d[i]]
    ELSE Append(d, <<k, v>>)

\* del d[k]
delitem(d, k) == SelectSeq(d, LAMBDA e : e[1] # k)

\* the mapping a dict denotes, order forgotten
AsMap(d) == [k \in keys(d) |-> getitem(d, k)]

------------------------------------------------------------------------------
(* JSON files.  A file on disk is                                          *)
(*   [st |-> "missing"]      no such file                                  *)
(*   [st |-> "unparseable"]  not JSON (an empty or cut-off file included)  *)
(*   [st |-> "nosamples"]    a JSON object without a "samples" member      *)
(*   [st |-> "ok"]           a JSON object with "samples"; samples is the  *)
(*                           member list of that object as written in the  *)
(*                           text (a name may occur twice), other stands   *)
(*                           for the remaining top-level members.          *)

FileText(st, samples, other) == [st |-> st, samples |-> samples, other |-> other]

\* json.load of a JSON object's member list: dict(pairs), so a repeated name
\* keeps its first position and its last value
RECURSIVE object_pairs(_)
object_pairs(text) ==
    IF text = <<>> THEN <<>>
    ELSE LET n == Len(text)
         IN setitem(object_pairs(SubSeq(text, 1, n - 1)), text[n][1], text[n][2])

\* open(json_file, "r") followed by load(file) and ["samples"]:
\* the exception raised, "" when none
load_error(f) ==
    CASE f.st = "missing" -> "FileNotFoundError"
      [] f.st = "unparseable" -> "JSONDecodeError"
      [] f.st = "nosamples" -> "KeyError"
      [] OTHER -> ""

\* load(file) of a parseable file: the parsed object
load(f) ==
    [has_samples |-> f.st = "ok", samples |-> object_pairs(f.samples), other |-> f.other]

\* open(json_file, "w"): the file exists and is empty
open_w(fs, json_file) == [fs EXCEPT ![json_file] = FileText("unparseable", <<>>, "")]

\* dump(obj, file) and close on a file opened for writing
dump(fs, json_file, obj) ==
    [fs EXCEPT ![json_file] =
        FileText(IF obj.has_samples THEN "ok" ELSE "nosamples", obj.samples, obj.other)]

Outcome(fs, raised, wrote) == [fs |-> fs, raised |-> raised, wrote |-> wrote]

------------------------------------------------------------------------------
(* add_favorite and remove_favorite as functions of the file system.       *)

add_favorite_overwrite(fs, subject_name, points, json_file) ==
    IF load_error(fs[json_file]) # ""
    THEN Outcome(fs, load_error(fs[json_file]), FALSE)
    ELSE LET favorites_json == load(fs[json_file])
             updated == [favorites_json EXCEPT
                            !.samples = setitem(@, subject_name, points)]
         IN Outcome(dump(open_w(fs, json_file), json_file, updated), "", TRUE)

add_favorite_rewrites(fs, subject_name, points, json_file) ==
    IF load_error(fs[json_file]) # ""
    THEN Outcome(fs, load_error(fs[json_file]), FALSE)
    ELSE LET favorites_json == load(fs[json_file])
             updated == IF subject_name \in keys(favorites_json.samples)
                        THEN favorites_json
                        ELSE [favorites_json EXCEPT
                                 !.samples = setitem(@, subject_name, points)]
         IN Outcome(dump(open_w(fs, json_file), json_file, updated), "", TRUE)

add_favorite_repairs(fs, subject_name, points, json_file) ==
    LET favorites_json == IF load_error(fs[json_file]) # ""
                          THEN [has_samples |-> TRUE, samples |-> <<>>, other |-> ""]
                          ELSE load(fs[json_file])
    IN IF subject_name \in keys(favorites_json.samples)
       THEN Outcome(fs, "", FALSE)
       ELSE LET updated == [favorites_json EXCEPT
                               !.samples = setitem(@, subject_name, points)]
            IN Outcome(dump(open_w(fs, json_file), json_file, updated), "", TRUE)

add_favorite(fs, subject_name, points, json_file) ==
    IF load_error(fs[json_file]) # ""
    THEN Outcome(fs, load_error(fs[json_file]), FALSE)
    ELSE LET favorites_json == load(fs[json_file])
         IN IF subject_name \in keys(favorites_json.samples)
            THEN Outcome(fs, "", FALSE)
            ELSE LET updated == [favorites_json EXCEPT
                                    !.samples = setitem(@, subject_name, points)]
                 IN Outcome(dump(open_w(fs, json_file), json_file, updated), "", TRUE)

remove_favorite_always_writes(fs, subject_name, json_file) ==
    IF load_error(fs[json_file]) # ""
    THEN Outcome(fs, load_error(fs[json_file]), FALSE)
    ELSE LET favorites_json == load(fs[json_file])
             updated == [favorites_json EXCEPT !.samples = delitem(@, subject_name)]
         IN Outcome(dump(open_w(fs, json_file), json_file, updated), "", TRUE)

remove_favorite(fs, subject_name, json_file) ==
    IF load_error(fs[json_file]) # ""
    THEN Outcome(fs, load_error(fs[json_file]), FALSE)
    ELSE LET favorites_json == load(fs[json_file])
         IN IF subject_name \notin keys(favorites_json.samples)
            THEN Outcome(fs, "", FALSE)
            ELSE LET updated == [favorites_json EXCEPT
                                    !.samples = delitem(@, subject_name)]
                 IN Outcome(dump(open_w(fs, json_file), json_file, updated), "", TRUE)

------------------------------------------------------------------------------
(* The state every specification starts from, apart from the favorites     *)
(* files.                                                                  *)

\* The taxonomy shipped with the program: two subjects per category; the
\* sample "Biopsi" occurs in two diagnostic subjects with different points.
CatalogLists ==
    (ListDiagnostics :> << <<"Hud", "hud">>, <<"Lunga", "lunga">> >>) @@
    (ListGrossing :> << <<"Hud", "hud_makro">>, <<"Tarm", "tarm_makro">> >>)

CatalogSubjects ==
    ("hud" :> << <<"Biopsi", 1>>, <<"Excision", 2>> >>) @@
    ("lunga" :> << <<"Biopsi", 3>>, <<"Lobektomi", 4>> >>) @@
    ("hud_makro" :> << <<"Excision", 5>> >>) @@
    ("tarm_makro" :> << <<"Resektion", 6>> >>)

AllSubjectsScreens == {"all_diagnostic_subjects", "all_grossing_subjects"}
FavoriteScreens == {"favorite_diagnostic_subjects", "favorite_grossing_subjects"}

\* a GridLayout before anything was added to it
EmptyGrid == [rows |-> 0, cols |-> 0, padding |-> 0, spacing |-> 0, children |-> <<>>]

NoEvent ==
    [kind |-> "none", screen |-> "", row |-> 0, label |-> "", subject_name |-> "",
     points |-> 0, json_file |-> "", diagnostic |-> TRUE, raised |-> "", wrote |-> FALSE]

Idle ==
    [pc |-> "idle", op |-> "", subject_name |-> "", points |-> 0, json_file |-> "",
     favorites_json |-> [has_samples |-> FALSE, samples |-> <<>>, other |-> ""],
     before |-> <<>>, at |-> ""]

\* the callbacks __init__ hands to Clock.schedule_once:
\* <<method, screen_name, file, diagnostic>>
Scheduled ==
    {<<"initialize_subscreens", "all_diagnostic_subjects", ListDiagnostics, TRUE>>,
     <<"initialize_subscreens", "all_grossing_subjects", ListGrossing, FALSE>>,
     <<"refresh_favorite", "favorite_grossing_subjects", FavGrossing, FALSE>>,
     <<"refresh_favorite", "favorite_diagnostic_subjects", FavDiagnostics, TRUE>>}

InitRest ==
    /\ subject_lists = CatalogLists
    /\ subjects = CatalogSubjects
    /\ event = NoEvent
    /\ proc = Idle
    /\ current = "main"
    /\ cells = [s \in AllSubjectsScreens |-> [subject_file |-> "", diagnostic |-> TRUE]]
    /\ all_subjects_grid = [s \in AllSubjectsScreens |-> EmptyGrid]
    /\ subject_grid = EmptyGrid
    /\ favorite_grid = [s \in FavoriteScreens |-> EmptyGrid]
    /\ shown = [subject_name |-> "", diagnostic |-> TRUE]
    /\ opened_from = ""

------------------------------------------------------------------------------
(* SpecStore: add_favorite and remove_favorite called with any arguments.  *)

StoreNames == {"Skin biopsy", "Excision"}
StorePoints == {5, 2}
Others == {"", "version"}

RECURSIVE SeqsUpTo(_, _)
SeqsUpTo(S, n) ==
    IF n = 0 THEN {<<>>}
    ELSE LET shorter == SeqsUpTo(S, n - 1)
         IN shorter \cup {Append(t, x) : t \in shorter, x \in S}

FileStates ==
    {FileText("missing", <<>>, ""), FileText("unparseable", <<>>, "")}
    \cup {FileText("nosamples", <<>>, o) : o \in Others}
    \cup {FileText("ok", t, o) : t \in SeqsUpTo(StoreNames \X StorePoints, MaxText),
                                 o \in Others}

\* the replay of a call on an in-memory mapping
MemAdd(m, k, v) ==
    IF k \in DOMAIN m THEN m
    ELSE [x \in DOMAIN m \cup {k} |-> IF x = k THEN v ELSE m[x]]

MemRemove(m, k) ==
    IF k \in DOMAIN m THEN [x \in DOMAIN m \ {k} |-> m[x]] ELSE m

MemOf(f) == AsMap(object_pairs(f.samples))

\* one favorites file in any state, the other as shipped: {"samples": {}}
InitStore ==
    /\ \E f \in JsonFiles, c \in FileStates :
           favorites = [g \in JsonFiles |-> IF g = f THEN c ELSE FileText("ok", <<>>, "")]
    /\ mem = [f \in JsonFiles |-> MemOf(favorites[f])]
    /\ pending = {}
    /\ InitRest

CallEvent(kind, subject_name, points, json_file, r) ==
    [NoEvent EXCEPT !.kind = kind, !.subject_name = subject_name, !.points = points,
                    !.json_file = json_file, !.raised = r.raised, !.wrote = r.wrote]

CallAdd(subject_name, points, json_file) ==
    LET r == add_favorite(favorites, subject_name, points, json_file)
    IN /\ favorites' = r.fs
       /\ event' = CallEvent("add_favorite", subject_name, points, json_file, r)
       /\ mem' = [mem EXCEPT ![json_file] = MemAdd(@, subject_name, points)]
       /\ UNCHANGED <<taxonomy, proc, uivars>>

CallRemove(subject_name, json_file) ==
    LET r == remove_favorite(favorites, subject_name, json_file)
    IN /\ favorites' = r.fs
       /\ event' = CallEvent("remove_favorite", subject_name, 0, json_file, r)
       /\ mem' = [mem EXCEPT ![json_file] = MemRemove(@, subject_name)]
       /\ UNCHANGED <<taxonomy, proc, uivars>>

NextStore ==
    \/ \E s \in StoreNames, p \in StorePoints, f \in JsonFiles : CallAdd(s, p, f)
    \/ \E s \in StoreNames, f \in JsonFiles : CallRemove(s, f)

SpecStore == InitStore /\ [][NextStore]_vars

\* C1: after each call, every well-formed favorites file holds exactly the
\* mapping that replaying the calls made on it gives on an in-memory mapping
\* (add inserts only an absent key, remove deletes only a present key).
C1_FileEqualsReplay ==
    \A f \in JsonFiles : favorites[f].st = "ok" => MemOf(favorites[f]) = mem[f]

C1_Witness ==
    /\ event.kind = "remove_favorite"
    /\ event.wrote
    /\ favorites[event.json_file].st = "ok"
    /\ Cardinality(DOMAIN mem[event.json_file]) = 1
    /\ \E g \in JsonFiles : g # event.json_file /\ Cardinality(DOMAIN mem[g]) = 2

\* C2: add_favorite of a name that is already a key changes nothing, whatever
\* the points argument: the file keeps its content (the stored value and every
\* other entry included), it is not rewritten and nothing is raised.
C2_AddPresentIsNoOp ==
    [][ LET f == event'.json_file
        IN (/\ event'.kind \in {"add_favorite", "press_favorit"}
            /\ load_error(favorites[f]) = ""
            /\ event'.subject_name \in keys(load(favorites[f]).samples))
           => (/\ favorites' = favorites
               /\ ~event'.wrote
               /\ event'.raised = "") ]_vars

C2_Witness ==
    /\ event.kind = "add_favorite"
    /\ ~event.wrote
    /\ event.raised = ""
    /\ favorites[event.json_file].st = "ok"
    /\ event.subject_name \in DOMAIN MemOf(favorites[event.json_file])
    /\ MemOf(favorites[event.json_file])[event.subject_name] # event.points

\* C3: remove_favorite of a name that is not a key changes nothing: the file
\* keeps its content, it is not rewritten and nothing is raised (so a second
\* press of the same "Ta bort" button does nothing).
C3_RemoveAbsentIsNoOp ==
    [][ LET f == event'.json_file
        IN (/\ event'.kind \in {"remove_favorite", "press_ta_bort"}
            /\ load_error(favorites[f]) = ""
            /\ event'.subject_name \notin keys(load(favorites[f]).samples))
           => (/\ favorites' = favorites
               /\ ~event'.wrote
               /\ event'.raised = "") ]_vars

C3_Witness ==
    /\ event.kind = "remove_favorite"
    /\ ~event.wrote
    /\ event.raised = ""
    /\ favorites[event.json_file].st = "ok"
    /\ event.subject_name \notin DOMAIN MemOf(favorites[event.json_file])
    /\ Len(favorites[event.json_file].samples) = 2

\* C6: on a favorites file that is missing, unparseable or without "samples",
\* add_favorite and remove_favorite raise, and every file is left as it was:
\* nothing is created, nothing is written.
C6_IllFormedRaises ==
    [][ LET f == event'.json_file
        IN (/\ event'.kind \in {"add_favorite", "remove_favorite",
                                "press_favorit", "press_ta_bort"}
            /\ favorites[f].st \in {"missing", "unparseable", "nosamples"})
           => (/\ event'.raised # ""
               /\ favorites' = favorites
               /\ ~event'.wrote) ]_vars

C6_Witness ==
    /\ event.kind = "add_favorite"
    /\ event.raised = "FileNotFoundError"
    /\ favorites[event.json_file].st = "missing"
    /\ \A g \in JsonFiles \ {event.json_file} : favorites[g].samples # <<>>

------------------------------------------------------------------------------
(* SpecCrash: the same two functions executed statement by statement; the  *)
(* process may die between any two statements and is then started again.   *)

\* lines 37-38 and 52-53: open the file for reading and load it
StmtOpenLoad(op, subject_name, points, json_file) ==
    /\ proc.pc = "idle"
    /\ IF favorites[json_file].st \in {"missing", "unparseable"}
       THEN proc' = [Idle EXCEPT !.at = load_error(favorites[json_file])]
       ELSE proc' = [Idle EXCEPT !.pc = "loaded", !.op = op,
                                    !.subject_name = subject_name, !.points = points,
                                    !.json_file = json_file,
                                    !.favorites_json = load(favorites[json_file]),
                                    !.before = favorites]
    /\ UNCHANGED <<favorites, taxonomy, mem, event, uivars>>

StmtCheck_reopens_early ==
    /\ proc.pc = "loaded"
    /\ LET j == proc.favorites_json
           done(raised) == /\ proc' = [Idle EXCEPT !.at = raised]
                           /\ favorites' = favorites
           change(samples) ==
               /\ proc' = [proc EXCEPT !.pc = "modified", !.favorites_json.samples = samples]
               /\ favorites' = open_w(favorites, proc.json_file)
       IN IF ~j.has_samples THEN done("KeyError")
          ELSE IF proc.op = "add_favorite"
          THEN IF proc.subject_name \in keys(j.samples) THEN done("")
               ELSE change(setitem(j.samples, proc.subject_name, proc.points))
          ELSE IF proc.subject_name \notin keys(j.samples) THEN done("")
               ELSE change(delitem(j.samples, proc.subject_name))
    /\ UNCHANGED <<taxonomy, mem, event, uivars>>

\* lines 40-43 and 55-58: look the name up, return early or change the dict
StmtCheck ==
    /\ proc.pc = "loaded"
    /\ LET j == proc.favorites_json
           done(raised) == proc' = [Idle EXCEPT !.at = raised]
       IN IF ~j.has_samples THEN done("KeyError")
          ELSE IF proc.op = "add_favorite"
          THEN IF proc.subject_name \in keys(j.samples) THEN done("")
               ELSE proc' = [proc EXCEPT !.pc = "modified",
                                !.favorites_json.samples =
                                    setitem(@, proc.subject_name, proc.points)]
          ELSE IF proc.subject_name \notin keys(j.samples) THEN done("")
               ELSE proc' = [proc EXCEPT !.pc = "modified",
                                !.favorites_json.samples = delitem(@, proc.subject_name)]
    /\ UNCHANGED <<favorites, taxonomy, mem, event, uivars>>

\* lines 45 and 60: open the file for writing
StmtOpenWrite ==
    /\ proc.pc = "modified"
    /\ favorites' = open_w(favorites, proc.json_file)
    /\ proc' = [proc EXCEPT !.pc = "opened"]
    /\ UNCHANGED <<taxonomy, mem, event, uivars>>

\* lines 47-48 and 62-63: dump and close
StmtDump ==
    /\ proc.pc = "opened"
    /\ favorites' = dump(favorites, proc.json_file, proc.favorites_json)
    /\ proc' = Idle
    /\ UNCHANGED <<taxonomy, mem, event, uivars>>

\* the process dies inside a call; the files stay as they are on disk
Crash ==
    /\ proc.pc \in {"loaded", "modified", "opened"}
    /\ proc' = [proc EXCEPT !.pc = "crashed", !.at = proc.pc]
    /\ UNCHANGED <<favorites, taxonomy, mem, event, uivars>>

\* the program is started again
Restart ==
    /\ proc.pc = "crashed"
    /\ proc' = Idle
    /\ UNCHANGED <<favorites, taxonomy, mem, event, uivars>>

NextCrash ==
    \/ \E s \in StoreNames, p \in StorePoints, f \in JsonFiles :
           StmtOpenLoad("add_favorite", s, p, f)
    \/ \E s \in StoreNames, f \in JsonFiles : StmtOpenLoad("remove_favorite", s, 0, f)
    \/ StmtCheck
    \/ StmtOpenWrite
    \/ StmtDump
    \/ Crash
    \/ Restart

SpecCrash == InitStore /\ [][NextCrash]_vars

\* the entries the file of the crashed call held before the call, the one a
\* remove targets left out
EntriesToKeep ==
    LET old == object_pairs(proc.before[proc.json_file].samples)
    IN {e \in {old[i] : i \in DOMAIN old} :
            ~(proc.op = "remove_favorite" /\ e[1] = proc.subject_name)}

EntriesOnDisk(f) ==
    IF f.st = "ok" THEN {object_pairs(f.samples)[i] : i \in DOMAIN object_pairs(f.samples)}
    ELSE {}

\* C7 as stated: wherever between its read and its write a call dies, the file
\* still holds every entry it held before the call (other than the one entry
\* a remove targets).
C7_CrashLosesNothing ==
    proc.pc = "crashed" => EntriesToKeep \subseteq EntriesOnDisk(favorites[proc.json_file])

\* C7 amended: a call that dies before it reopens the file for writing
\* (lines 45, 60) leaves every file exactly as it was; a call that dies after
\* the reopening and before the dump leaves its file empty.
C7_CrashBeforeReopenKeepsFile ==
    proc.pc = "crashed" =>
        /\ proc.at \in {"loaded", "modified"} => favorites = proc.before
        /\ proc.at = "opened" =>
               /\ favorites[proc.json_file] = FileText("unparseable", <<>>, "")
               /\ \A g \in JsonFiles \ {proc.json_file} : favorites[g] = proc.before[g]

C7_Witness ==
    /\ proc.pc = "crashed"
    /\ proc.at = "modified"
    /\ proc.op = "remove_favorite"
    /\ Cardinality(EntriesToKeep) = 1
    /\ favorites = proc.before

------------------------------------------------------------------------------
(* Widgets and grids.                                                      *)

\* what a widget's on_press is bound to: nothing, the lambda of
\* initialize_subscreens (it reads the cells of its screen when called), or
\* add_favorite / remove_favorite with the keyword arguments given at binding
Unbound == [fn |-> "", screen |-> "", subject_name |-> "", points |-> 0, json_file |-> ""]

Label(text) == [cls |-> "Label", text |-> text, on_press |-> Unbound]

Button(text, on_press) == [cls |-> "Button", text |-> text, on_press |-> on_press]

add_widget(grid, widget) == [grid EXCEPT !.children = Append(@, widget)]

clear_widgets(grid) == [grid EXCEPT !.children = <<>>]

\* get_subject_dict(subject_name)
get_subject_dict(subject_name) == object_pairs(subjects[subject_name])

------------------------------------------------------------------------------
(* PathPointsMain.initialize_subscreens                                    *)

\* the for loop of lines 108-114 over the remaining items: every pass
\* rebinds the local subject_file and adds a button whose lambda refers to
\* the locals of this call, not to their values
RECURSIVE subscreens_loop(_, _, _, _)
subscreens_loop(screen_name, items, grid, cell) ==
    IF items = <<>> THEN [grid |-> grid, cell |-> cell]
    ELSE LET subject == items[1][1]
             subject_button ==
                 Button(subject, [Unbound EXCEPT !.fn = "lambda", !.screen = screen_name])
         IN subscreens_loop(screen_name, Tail(items),
                            add_widget(grid, subject_button),
                            [cell EXCEPT !.subject_file = items[1][2]])

initialize_subscreens(screen_name, subject_file, diagnostic) ==
    LET subjects_dict == object_pairs(subject_lists[subject_file])
        grid == [all_subjects_grid[screen_name] EXCEPT
                    !.rows = Len(subjects_dict), !.cols = 1]
    IN subscreens_loop(screen_name, subjects_dict, grid,
                       [subject_file |-> subject_file, diagnostic |-> diagnostic])

------------------------------------------------------------------------------
(* PathPointsMain.refresh_favorite                                         *)

RemoveBinding(sample, diagnostic) ==
    [Unbound EXCEPT !.fn = "remove_favorite", !.subject_name = sample,
                    !.json_file = IF diagnostic THEN FavDiagnostics ELSE FavGrossing]

RECURSIVE favorite_rows(_, _, _)
favorite_rows(items, grid, diagnostic) ==
    IF items = <<>> THEN grid
    ELSE LET sample == items[1][1]
             g1 == add_widget(grid, Label(sample))
             g2 == add_widget(g1, Button("+", Unbound))
             g3 == add_widget(g2, Button("-", Unbound))
             g4 == add_widget(g3, Button("Ta bort", RemoveBinding(sample, diagnostic)))
         IN favorite_rows(Tail(items), g4, diagnostic)

refresh_favorite_keeps_rows(grid, fs, json_file, diagnostic) ==
    LET favorites_dict == load(fs[json_file]).samples
        sized == [grid EXCEPT !.rows = Len(favorites_dict), !.cols = 4]
    IN favorite_rows(favorites_dict, sized, diagnostic)

\* the grid of the favorites screen after refresh_favorite(screen_name,
\* json_file, diagnostic); a file that cannot be loaded ends the call after
\* clear_widgets
refresh_favorite(grid, fs, json_file, diagnostic) ==
    IF load_error(fs[json_file]) # "" THEN clear_widgets(grid)
    ELSE LET favorites_dict == load(fs[json_file]).samples
             sized == [clear_widgets(grid) EXCEPT
                          !.rows = Len(favorites_dict), !.cols = 4]
         IN favorite_rows(favorites_dict, sized, diagnostic)

------------------------------------------------------------------------------
(* PathPointsMain.view_subject                                             *)

AddBinding(sample, points, diagnostic) ==
    [Unbound EXCEPT !.fn = "add_favorite", !.subject_name = sample, !.points = points,
                    !.json_file = IF diagnostic THEN FavDiagnostics ELSE FavGrossing]

RECURSIVE subject_rows(_, _, _)
subject_rows(items, grid, diagnostic) ==
    IF items = <<>> THEN grid
    ELSE LET sample == items[1][1]
             points == items[1][2]
             g1 == add_widget(grid, Label(sample))
             g2 == add_widget(g1, Button("+", Unbound))
             g3 == add_widget(g2, Button("-", Unbound))
             g4 == add_widget(g3, Button("Favorit", AddBinding(sample, points, diagnostic)))
         IN subject_rows(Tail(items), g4, diagnostic)

RECURSIVE subject_rows_named(_, _, _, _)
subject_rows_named(items, grid, diagnostic, subject_name) ==
    IF items = <<>> THEN grid
    ELSE LET g1 == add_widget(grid, Label(items[1][1]))
             g2 == add_widget(g1, Button("+", Unbound))
             g3 == add_widget(g2, Button("-", Unbound))
             g4 == add_widget(g3, Button("Favorit",
                                  AddBinding(subject_name, items[1][2], diagnostic)))
         IN subject_rows_named(Tail(items), g4, diagnostic, subject_name)

view_subject_binds_subject(grid, subject_name, diagnostic) ==
    LET subject_dict == get_subject_dict(subject_name)
        sized == [clear_widgets(grid) EXCEPT !.rows = Len(subject_dict), !.cols = 4,
                                             !.padding = 5, !.spacing = 20]
    IN subject_rows_named(subject_dict, sized, diagnostic, subject_name)

view_subject_keeps_rows(grid, subject_name, diagnostic) ==
    LET subject_dict == get_subject_dict(subject_name)
        sized == [grid EXCEPT !.rows = Len(subject_dict), !.cols = 4,
                              !.padding = 5, !.spacing = 20]
    IN subject_rows(subject_dict, sized, diagnostic)

view_subject_one_file(grid, subject_name, diagnostic) ==
    LET subject_dict == get_subject_dict(subject_name)
        sized == [clear_widgets(grid) EXCEPT !.rows = Len(subject_dict), !.cols = 4,
                                             !.padding = 5, !.spacing = 20]
    IN subject_rows(subject_dict, sized, TRUE)

\* the grid of the "subject" screen after view_subject(subject_name, diagnostic)
view_subject(grid, subject_name, diagnostic) ==
    LET subject_dict == get_subject_dict(subject_name)
        sized == [clear_widgets(grid) EXCEPT !.rows = Len(subject_dict), !.cols = 4,
                                             !.padding = 5, !.spacing = 20]
    IN subject_rows(subject_dict, sized, diagnostic)

------------------------------------------------------------------------------
(* Spec: the running application.                                          *)

\* the <<sample, points>> entries of the subjects of one category
CatalogEntries(list_file) ==
    UNION {{CatalogSubjects[e[2]][i] : i \in DOMAIN CatalogSubjects[e[2]]} :
              e \in {CatalogLists[list_file][i] : i \in DOMAIN CatalogLists[list_file]}}

ListOf(json_file) == IF json_file = FavDiagnostics THEN ListDiagnostics ELSE ListGrossing

\* favorites files as the program writes them: distinct names, nothing else
InitialFavorites(json_file) ==
    {FileText("ok", t, "") :
        t \in {u \in SeqsUpTo(CatalogEntries(ListOf(json_file)), MaxFav) :
                  Cardinality(keys(u)) = Len(u)}}

Init ==
    /\ favorites \in [JsonFiles -> UNION {InitialFavorites(f) : f \in JsonFiles}]
    /\ \A f \in JsonFiles : favorites[f] \in InitialFavorites(f)
    /\ mem = [f \in JsonFiles |-> MemOf(favorites[f])]
    /\ pending = Scheduled
    /\ InitRest

UiEvent(kind, screen, row, label) ==
    [NoEvent EXCEPT !.kind = kind, !.screen = screen, !.row = row, !.label = label]

\* a scheduled initialize_subscreens callback runs
RunInitializeSubscreens(cb) ==
    /\ cb \in pending
    /\ cb[1] = "initialize_subscreens"
    /\ LET r == initialize_subscreens(cb[2], cb[3], cb[4])
       IN /\ all_subjects_grid' = [all_subjects_grid EXCEPT ![cb[2]] = r.grid]
          /\ cells' = [cells EXCEPT ![cb[2]] = r.cell]
    /\ pending' = pending \ {cb}
    /\ event' = [UiEvent("initialize_subscreens", cb[2], 0, "") EXCEPT
                    !.json_file = cb[3], !.diagnostic = cb[4]]
    /\ UNCHANGED <<favorites, taxonomy, mem, proc, current, subject_grid, favorite_grid,
                   shown, opened_from>>

\* a scheduled refresh_favorite callback runs
RunRefreshFavorite(cb) ==
    /\ cb \in pending
    /\ cb[1] = "refresh_favorite"
    /\ favorite_grid' = [favorite_grid EXCEPT
                            ![cb[2]] = refresh_favorite(@, favorites, cb[3], cb[4])]
    /\ pending' = pending \ {cb}
    /\ event' = [UiEvent("refresh_favorite", cb[2], 0, "") EXCEPT
                    !.json_file = cb[3], !.diagnostic = cb[4]]
    /\ UNCHANGED <<favorites, taxonomy, mem, proc, current, cells, all_subjects_grid,
                   subject_grid, shown, opened_from>>

\* main screen, "Alla aemnesomraden": the all-subjects screen is shown
OpenAllSubjects(screen_name) ==
    /\ pending = {}
    /\ current = "main"
    /\ current' = screen_name
    /\ event' = UiEvent("open", screen_name, 0, "")
    /\ UNCHANGED <<favorites, taxonomy, mem, proc, pending, cells, all_subjects_grid,
                   subject_grid, favorite_grid, shown, opened_from>>

\* main screen, "Favoriter": the favorites screen is generated again and shown
EnterFavorites(cb) ==
    /\ pending = {}
    /\ current = "main"
    /\ cb \in Scheduled
    /\ cb[1] = "refresh_favorite"
    /\ favorite_grid' = [favorite_grid EXCEPT
                            ![cb[2]] = refresh_favorite(@, favorites, cb[3], cb[4])]
    /\ current' = cb[2]
    /\ event' = [UiEvent("enter_favorites", cb[2], 0, "") EXCEPT
                    !.json_file = cb[3], !.diagnostic = cb[4]]
    /\ UNCHANGED <<favorites, taxonomy, mem, proc, pending, cells, all_subjects_grid,
                   subject_grid, shown, opened_from>>

\* a subject button of an all-subjects screen is pressed: its lambda calls
\* view_subject with what the cells of its screen hold now
PressSubject(screen_name, i) ==
    /\ pending = {}
    /\ current = screen_name
    /\ i \in DOMAIN all_subjects_grid[screen_name].children
    /\ LET button == all_subjects_grid[screen_name].children[i]
           cell == cells[button.on_press.screen]
       IN /\ button.on_press.fn = "lambda"
          /\ subject_grid' = view_subject(subject_grid, cell.subject_file, cell.diagnostic)
          /\ shown' = [subject_name |-> cell.subject_file, diagnostic |-> cell.diagnostic]
          /\ event' = [UiEvent("press_subject", screen_name, i, button.text) EXCEPT
                          !.subject_name = cell.subject_file,
                          !.diagnostic = cell.diagnostic]
    /\ current' = "subject"
    /\ opened_from' = screen_name
    /\ UNCHANGED <<favorites, taxonomy, mem, proc, pending, cells, all_subjects_grid,
                   favorite_grid>>

\* the label of the row a widget of a four-column grid stands in
RowLabel(grid, i) == grid.children[i - ((i - 1) % 4)].text

\* the "Favorit" button of a row of the subject screen is pressed
PressFavorit(i) ==
    /\ pending = {}
    /\ current = "subject"
    /\ i \in DOMAIN subject_grid.children
    /\ LET b == subject_grid.children[i].on_press
           r == add_favorite(favorites, b.subject_name, b.points, b.json_file)
       IN /\ b.fn = "add_favorite"
          /\ favorites' = r.fs
          /\ mem' = [mem EXCEPT ![b.json_file] = MemAdd(@, b.subject_name, b.points)]
          /\ event' = [UiEvent("press_favorit", "subject", i, RowLabel(subject_grid, i))
                          EXCEPT !.subject_name = b.subject_name, !.points = b.points,
                                 !.json_file = b.json_file, !.raised = r.raised,
                                 !.wrote = r.wrote]
    /\ UNCHANGED <<taxonomy, proc, uivars>>

\* the "Ta bort" button of a row of a favorites screen is pressed
PressTaBort(screen_name, i) ==
    /\ pending = {}
    /\ current = screen_name
    /\ i \in DOMAIN favorite_grid[screen_name].children
    /\ LET b == favorite_grid[screen_name].children[i].on_press
           r == remove_favorite(favorites, b.subject_name, b.json_file)
       IN /\ b.fn = "remove_favorite"
          /\ favorites' = r.fs
          /\ mem' = [mem EXCEPT ![b.json_file] = MemRemove(@, b.subject_name)]
          /\ event' = [UiEvent("press_ta_bort", screen_name, i,
                               RowLabel(favorite_grid[screen_name], i))
                          EXCEPT !.subject_name = b.subject_name,
                                 !.json_file = b.json_file, !.raised = r.raised,
                                 !.wrote = r.wrote]
    /\ UNCHANGED <<taxonomy, proc, uivars>>

\* back to the main screen
Back ==
    /\ pending = {}
    /\ current # "main"
    /\ current' = "main"
    /\ event' = UiEvent("back", "main", 0, "")
    /\ UNCHANGED <<favorites, taxonomy, mem, proc, pending, cells, all_subjects_grid,
                   subject_grid, favorite_grid, shown, opened_from>>

Next ==
    \/ \E cb \in Scheduled : RunInitializeSubscreens(cb)
    \/ \E cb \in Scheduled : RunRefreshFavorite(cb)
    \/ \E screen_name \in AllSubjectsScreens : OpenAllSubjects(screen_name)
    \/ \E cb \in Scheduled : EnterFavorites(cb)
    \/ \E screen_name \in AllSubjectsScreens :
           \E i \in DOMAIN all_subjects_grid[screen_name].children :
               PressSubject(screen_name, i)
    \/ \E i \in DOMAIN subject_grid.children : PressFavorit(i)
    \/ \E screen_name \in FavoriteScreens :
           \E i \in DOMAIN favorite_grid[screen_name].children :
               PressTaBort(screen_name, i)
    \/ Back

Spec == Init /\ [][Next]_vars

ListOfScreen(screen_name) ==
    IF screen_name = "all_diagnostic_subjects" THEN ListDiagnostics ELSE ListGrossing

FileOfScreen(screen_name) ==
    IF screen_name = "favorite_diagnostic_subjects" THEN FavDiagnostics ELSE FavGrossing

\* C4: every row's control acts on the row's own key: a subject button calls
\* view_subject with the sample file its subject has in the subject list, a
\* "Favorit" button adds the sample of its row with the points of that sample,
\* a "Ta bort" button removes the sample of its row.
C4_RowActsOnOwnKey ==
    /\ event.kind = "press_subject" =>
           event.subject_name =
               getitem(object_pairs(subject_lists[ListOfScreen(event.screen)]), event.label)
    /\ event.kind = "press_favorit" =>
           /\ event.subject_name = event.label
           /\ event.points = getitem(get_subject_dict(shown.subject_name), event.label)
    /\ event.kind = "press_ta_bort" => event.subject_name = event.label

\* the labels of the rows of a four-column grid, top to bottom
RowLabels(grid) == [r \in 1..(Len(grid.children) \div 4) |-> grid.children[4 * r - 3].text]

\* C5: whenever a favorites screen is entered, its rows are the entries of the
\* "samples" mapping its category's favorites file holds at that moment.
C5_EnteredFavoritesShowFile ==
    event.kind = "enter_favorites" =>
        LET grid == favorite_grid[event.screen]
            stored == load(favorites[FileOfScreen(event.screen)]).samples
        IN /\ Len(grid.children) = 4 * Len(stored)
           /\ RowLabels(grid) = [r \in DOMAIN stored |-> stored[r][1]]

C5_Witness ==
    /\ event.kind = "enter_favorites"
    /\ event.screen = "favorite_diagnostic_subjects"
    /\ Len(favorites[FavDiagnostics].samples) > MaxFav
    /\ Len(favorite_grid[event.screen].children) > 4 * MaxFav

\* C8: every name that is a key of a favorites file is a sample of some
\* subject file of the catalog.
C8_FavoritesAreCatalogSamples ==
    \A f \in JsonFiles :
        keys(load(favorites[f]).samples)
            \subseteq UNION {keys(object_pairs(subjects[n])) : n \in DOMAIN subjects}

C8_Witness ==
    /\ event.kind = "press_favorit"
    /\ event.wrote
    /\ event.subject_name \in keys(load(favorites[event.json_file]).samples)

Rendered(grid, source, control) ==
    /\ grid.rows = Len(source)
    /\ Len(grid.children) = 4 * Len(source)
    /\ \A r \in DOMAIN source :
           /\ grid.children[4 * r - 3] = Label(source[r][1])
           /\ grid.children[4 * r - 2] = Button("+", Unbound)
           /\ grid.children[4 * r - 1] = Button("-", Unbound)
           /\ grid.children[4 * r].cls = "Button"
           /\ grid.children[4 * r].text = control

\* C9: after every call of view_subject or refresh_favorite the grid it
\* populated holds one row of four widgets (label, "+", "-", control) per
\* entry of the source the call read, in the order of the source, rows is the
\* number of entries, and nothing of an earlier call is left.
C9_GridIsOneRowPerEntry ==
    /\ event.kind = "press_subject" =>
           Rendered(subject_grid, get_subject_dict(event.subject_name), "Favorit")
    /\ event.kind \in {"refresh_favorite", "enter_favorites"} =>
           Rendered(favorite_grid[event.screen], load(favorites[event.json_file]).samples,
                    "Ta bort")

C9_Witness ==
    /\ event.kind = "press_subject"
    /\ event.screen = "all_grossing_subjects"
    /\ shown.subject_name = "tarm_makro"
    /\ Len(subject_grid.children) = 4
    /\ Len(favorites[FavDiagnostics].samples) > MaxFav

\* C10: favorites are kept apart by category: a "Favorit" press on a subject
\* opened from the diagnostic subjects screen and a "Ta bort" press on the
\* diagnostic favorites screen leave favorites-grossing.json as it is, and the
\* other way round; no step changes a subject list or a subject file.
C10_FavoritesIsolated ==
    [][ /\ (event'.kind = "press_favorit" /\ opened_from = "all_diagnostic_subjects")
               => favorites'[FavGrossing] = favorites[FavGrossing]
        /\ (event'.kind = "press_favorit" /\ opened_from = "all_grossing_subjects")
               => favorites'[FavDiagnostics] = favorites[FavDiagnostics]
        /\ (event'.kind = "press_ta_bort" /\ event'.screen = "favorite_diagnostic_subjects")
               => favorites'[FavGrossing] = favorites[FavGrossing]
        /\ (event'.kind = "press_ta_bort" /\ event'.screen = "favorite_grossing_subjects")
               => favorites'[FavDiagnostics] = favorites[FavDiagnostics]
        /\ subject_lists' = subject_lists
        /\ subjects' = subjects ]_vars

C10_Witness ==
    /\ event.kind = "press_favorit"
    /\ event.wrote
    /\ opened_from = "all_grossing_subjects"
    /\ event.json_file = FavGrossing
    /\ favorites[FavDiagnostics].samples # <<>>

====
